---- MODULE Spec2Model ----
(***************************************************************************)
(* A model of src/processCSV.js: the ingestion Lambda (lines 1-109), which *)
(* reads an uploaded CSV file and sends its rows to an SQS FIFO queue in   *)
(* batches of CHUNK_SIZE, and the consumer Lambda (lines 111-239), which   *)
(* upserts each queue record into MySQL inside a transaction and deletes   *)
(* the record's message.                                                   *)
(*                                                                         *)
(* Every `await` of the source is a step of the model.  The calls to S3,   *)
(* SQS, SSM and MySQL are the environment: each one either resolves or     *)
(* rejects, chosen by \E when `faults` is set.                             *)
(*                                                                         *)
(* What the environment is taken to do:                                    *)
(*  - the queue is FIFO with deduplication: an entry whose                 *)
(*    MessageDeduplicationId the queue has seen is accepted and dropped;   *)
(*  - the users table has id as its primary key and, depending on the      *)
(*    schema (uniqueName), a unique key on name; the schema is not in the  *)
(*    repository;                                                          *)
(*  - a statement issued on a connection after pool.end() is refused; an   *)
(*    operation already in flight completes either way; pool.end() itself  *)
(*    resolves;                                                            *)
(*  - events are well formed: the S3 event names a bucket and a key, and   *)
(*    every record body is the JSON that sendChunkToSQS writes;            *)
(*  - the clock ticks at most once while chunk.map runs.                   *)
(*                                                                         *)
(* concurrencyLimit and connectionLimit are 10 in the source and scaled    *)
(* down here, so that a window is explored under every interleaving of     *)
(* its records; CHUNK_SIZE keeps its value.                                *)
(***************************************************************************)
EXTENDS Naturals, Integers, Sequences, FiniteSets, TLC

VARIABLES
  faults,        \* whether the external calls of this behaviour may reject
  \* ---- the ingestion invocation (exports.handler, lines 58-109)
  ipc,           \* position of the ingestion handler
  bucketName,    \* event.Records[0].s3.bucket.name, a sequence of characters
  file,          \* the parsed data rows of the uploaded object, in file order
  pos,           \* number of rows the `for await` loop has consumed
  rows,          \* the buffer `rows` (line 78)
  chunkCounter,  \* line 79
  uploadResponse,\* statusCode returned by the ingestion handler, 0 before
  sends,         \* history: every SendMessageBatch call, in call order
  now,           \* Date.now()
  \* ---- the SQS FIFO queue
  queue,         \* log of the messages the queue accepted, in FIFO order
  deleted,       \* receipt handles (indexes of queue) deleted by DeleteMessage
  \* ---- the consumer process
  dbConfigCache, \* line 125, env -> config or NoConfig
  ssmVersion,    \* the parameter store's current credentials
  ssmRequests,   \* history: GetParameter requests issued, per env and name
  \* ---- the consumer invocation (exports.handler, lines 207-239)
  hpc,           \* position of the consumer handler
  event,         \* event.Records, a sequence of receipt handles
  env,           \* line 215
  pool,          \* line 208/218: NoPool or [config, state]
  winStart,      \* the loop variable i of line 227
  response,      \* statusCode returned by the consumer handler, 0 before
  task,          \* per receipt handle: the processRecord call for it
  invocations,   \* number of consumer invocations started in this process
  lifetime,      \* number of invocations the process serves before it is recycled
  batchSize,     \* BatchSize of the event source: most records of one event
  poolEnds,      \* history: number of pool.end() calls of this invocation
  \* ---- the MySQL server
  users,         \* committed rows of the users table, over all databases
  nextUuid,      \* UUID() generator
  uniqueName     \* schema: whether users.name carries a unique key

ingestVars == <<ipc, bucketName, file, pos, rows, chunkCounter, uploadResponse, sends, now>>
queueVars == <<queue, deleted>>
processVars == <<dbConfigCache, ssmVersion, ssmRequests, lifetime, batchSize>>
invocationVars == <<hpc, event, env, pool, winStart, response, task, invocations, poolEnds>>
dbVars == <<users, nextUuid, uniqueName>>
vars == <<faults, ingestVars, queueVars, processVars, invocationVars, dbVars>>

-----------------------------------------------------------------------------
(* Bounds of the model *)

\* rows of an uploaded file under SpecIngest
MaxRows == 21
\* rows of an uploaded file under SpecPipeline
MaxPipelineRows == 2
\* messages on the queue of a consumer behaviour, and the most records of
\* one event
MaxRecords == 3
\* consumer invocations of one process
MaxInvocations == 2
\* credential rotations in the parameter store
MaxVersion == 2

-----------------------------------------------------------------------------
(* Strings *)

DigitStr == <<"0", "1", "2", "3", "4", "5", "6", "7", "8", "9">>

\* String(n) of a template literal: the decimal digits of n
RECURSIVE ToStr(_)
ToStr(n) == IF n < 10 THEN DigitStr[n + 1]
            ELSE ToStr(n \div 10) \o DigitStr[(n % 10) + 1]

\* the value `undefined`; no token of a split holds a hyphen
Undefined == "-undefined-"

\* String.prototype.split("-") over a sequence of characters
RECURSIVE SplitFrom(_, _, _, _)
SplitFrom(s, i, cur, toks) ==
  IF i > Len(s) THEN Append(toks, cur)
  ELSE IF s[i] = "-" THEN SplitFrom(s, i + 1, "", Append(toks, cur))
  ELSE SplitFrom(s, i + 1, cur \o s[i], toks)

Split(s) == SplitFrom(s, 1, "", <<>>)

\* bucketName.split("-")[1] (line 69): undefined when there is no hyphen
DeriveEnv(b) == IF Len(Split(b)) >= 2 THEN Split(b)[2] ELSE Undefined

-----------------------------------------------------------------------------
(* Ingestion: sendChunkToSQS, lines 32-52 *)

CHUNK_SIZE == 10

\* the default parameter  env = "dev"  of line 32 applies to undefined
DefaultEnv(e) == IF e = Undefined THEN "dev" ELSE e

\* The k-th evaluation of Date.now() inside chunk.map: the clock reads t for
\* the first tickAt evaluations and t + 1 afterwards.
ClockAt(t, tickAt, k) == IF k <= tickAt THEN t ELSE t + 1

\* `row.id || index` (line 37): an empty or missing id is falsy
DedupKey(row, index) == IF row.id # "" THEN row.id ELSE ToStr(index)

\* lines 33-38, with index = i - 1
Entries(chunk, e, t, tickAt) ==
  [i \in 1..Len(chunk) |->
    [Id |-> "row-" \o ToStr(i - 1) \o "-" \o ToStr(ClockAt(t, tickAt, 2 * i - 1)),
     MessageBody |-> [data |-> chunk[i], env |-> e],
     MessageGroupId |-> "CSVChunkGroup",
     MessageDeduplicationId |->
       "dedup-" \o DedupKey(chunk[i], i - 1) \o "-" \o ToStr(ClockAt(t, tickAt, 2 * i))]]

\* SQS FIFO: an entry whose deduplication id the queue has seen within the
\* deduplication interval is accepted but not delivered.
RECURSIVE SqsAccept(_, _, _)
SqsAccept(q, entries, i) ==
  IF i > Len(entries) THEN q
  ELSE IF \E j \in 1..Len(q) : q[j].MessageDeduplicationId = entries[i].MessageDeduplicationId
       THEN SqsAccept(q, entries, i + 1)
       ELSE SqsAccept(Append(q, entries[i]), entries, i + 1)

Outcomes == IF faults THEN {"ok", "throw"} ELSE {"ok"}

-----------------------------------------------------------------------------
(* Ingestion: exports.handler, lines 58-109 *)

BucketNames ==
  { <<"m","y","a","p","p","-","d","e","v","-","d","a","t","a">>,
    <<"a","p","p","-","p","r","o","d","-","u","p">>,
    <<"u","p","l","o","a","d","s">> }

IdPatterns == {"none", "line", "same", "clash"}

\* the id column of line i of a file
IdOf(p, i) ==
  CASE p = "none" -> ""
    [] p = "line" -> ToStr(i)
    [] p = "same" -> "7"
    [] p = "clash" -> IF i % 2 = 1 THEN "" ELSE ToStr((i - 2) % CHUNK_SIZE)

MkFile(p, n) == [i \in 1..n |-> [id |-> IdOf(p, i), name |-> "n" \o ToStr(i), timestamp |-> "1"]]

IngestFiles == { MkFile(p, n) : p \in IdPatterns, n \in 0..MaxRows }

\* line 58: the S3 event arrives
S3Event(b, f) ==
  /\ ipc = "idle"
  /\ ipc' = "fetch"
  /\ bucketName' = b
  /\ file' = f
  /\ UNCHANGED <<pos, rows, chunkCounter, uploadResponse, sends, now>>
  /\ UNCHANGED <<faults, queueVars, processVars, invocationVars, dbVars>>

\* lines 74-80: GetObject and streamToString
FetchObject(outcome) ==
  /\ ipc = "fetch"
  /\ IF outcome = "ok"
       THEN /\ ipc' = "parse"
            /\ uploadResponse' = uploadResponse
       ELSE /\ ipc' = "returned"
            /\ uploadResponse' = 500
  /\ rows' = <<>>
  /\ chunkCounter' = 0
  /\ pos' = 0
  /\ UNCHANGED <<bucketName, file, sends, now>>
  /\ UNCHANGED <<faults, queueVars, processVars, invocationVars, dbVars>>

\* lines 82-87: one iteration of the loop, up to the await of line 88
ReadRow ==
  /\ ipc = "parse"
  /\ pos < Len(file)
  /\ pos' = pos + 1
  /\ rows' = Append(rows, file[pos + 1])
  /\ IF Len(rows') = CHUNK_SIZE
       THEN /\ chunkCounter' = chunkCounter + 1
            /\ ipc' = "send"
       ELSE UNCHANGED <<chunkCounter, ipc>>
  /\ UNCHANGED <<bucketName, file, uploadResponse, sends, now>>
  /\ UNCHANGED <<faults, queueVars, processVars, invocationVars, dbVars>>

\* EndOfStream without the final flush of lines 94-98
EndOfStreamDropsRest ==
  /\ ipc = "parse"
  /\ pos = Len(file)
  /\ ipc' = "returned"
  /\ uploadResponse' = 200
  /\ UNCHANGED <<bucketName, file, pos, rows, chunkCounter, sends, now>>
  /\ UNCHANGED <<faults, queueVars, processVars, invocationVars, dbVars>>

\* a final flush under `rows.length >= 0`: it sends the empty buffer too
EndOfStreamAlwaysFlushes ==
  /\ ipc = "parse"
  /\ pos = Len(file)
  /\ chunkCounter' = chunkCounter + 1
  /\ ipc' = "sendFinal"
  /\ UNCHANGED <<bucketName, file, pos, rows, uploadResponse, sends, now>>
  /\ UNCHANGED <<faults, queueVars, processVars, invocationVars, dbVars>>

\* lines 93-96 and 100-104: the stream has ended
EndOfStream ==
  /\ ipc = "parse"
  /\ pos = Len(file)
  /\ IF Len(rows) > 0
       THEN /\ chunkCounter' = chunkCounter + 1
            /\ ipc' = "sendFinal"
            /\ uploadResponse' = uploadResponse
       ELSE /\ chunkCounter' = chunkCounter
            /\ ipc' = "returned"
            /\ uploadResponse' = 200
  /\ UNCHANGED <<bucketName, file, pos, rows, sends, now>>
  /\ UNCHANGED <<faults, queueVars, processVars, invocationVars, dbVars>>

\* where the handler goes after a batch was sent: line 89 clears the buffer
\* and the loop goes on; after the final chunk the handler returns 200
AfterSend(at) == IF at = "send" THEN "parse" ELSE "returned"

\* a sendChunkToSQS whose catch block logs the error and does not rethrow it
SendChunkSwallows(outcome, tickAt) ==
  /\ ipc \in {"send", "sendFinal"}
  /\ LET entries == Entries(rows, DefaultEnv(DeriveEnv(bucketName)), now, tickAt)
     IN /\ sends' = Append(sends, [entries |-> entries, outcome |-> outcome])
        /\ now' = IF tickAt < 2 * Len(rows) THEN now + 1 ELSE now
        /\ queue' = IF outcome = "ok" THEN SqsAccept(queue, entries, 1) ELSE queue
        /\ ipc' = AfterSend(ipc)
        /\ rows' = IF ipc = "send" THEN <<>> ELSE rows
        /\ uploadResponse' = IF ipc = "send" THEN uploadResponse ELSE 200
  /\ UNCHANGED <<bucketName, file, pos, chunkCounter>>
  /\ UNCHANGED <<faults, deleted, processVars, invocationVars, dbVars>>

\* lines 88 and 97: sendChunkToSQS(rows, env) and what follows its await
SendChunk(outcome, tickAt) ==
  /\ ipc \in {"send", "sendFinal"}
  /\ LET entries == Entries(rows, DefaultEnv(DeriveEnv(bucketName)), now, tickAt)
     IN /\ sends' = Append(sends, [entries |-> entries, outcome |-> outcome])
        /\ now' = IF tickAt < 2 * Len(rows) THEN now + 1 ELSE now
        /\ IF outcome = "ok"
             THEN /\ queue' = SqsAccept(queue, entries, 1)
                  /\ ipc' = AfterSend(ipc)
                  /\ rows' = IF ipc = "send" THEN <<>> ELSE rows
                  /\ uploadResponse' = IF ipc = "send" THEN uploadResponse ELSE 200
             ELSE /\ queue' = queue
                  /\ ipc' = "returned"
                  /\ rows' = rows
                  /\ uploadResponse' = 500
  /\ UNCHANGED <<bucketName, file, pos, chunkCounter>>
  /\ UNCHANGED <<faults, deleted, processVars, invocationVars, dbVars>>

IngestNext ==
  \/ \E b \in BucketNames, f \in IngestFiles : S3Event(b, f)
  \/ \E o \in Outcomes : FetchObject(o)
  \/ ReadRow
  \/ EndOfStream
  \/ \E o \in Outcomes, k \in 0..(2 * Len(rows)) : SendChunk(o, k)

-----------------------------------------------------------------------------
(* The parameter store and getDatabaseConfig, lines 124-167 *)

Envs == {"dev", "prod"}

ParamNames == {"MYSQL_HOST", "MYSQL_USER", "MYSQL_PASSWORD", "MYSQL_DATABASE"}

\* `/${env}/MYSQL_HOST` and the like (lines 158-161)
ParamPath(e, name) == "/" \o e \o "/" \o name

ParamPaths == { ParamPath(e, name) : e \in Envs, name \in ParamNames }

\* response.Parameter.Value (line 140): the store's value of a path
ParamValue(path, version) == <<path, version>>

NoConfig == [host |-> <<>>, user |-> <<>>, password |-> <<>>, database |-> <<>>]

\* line 164, from the four values of lines 157-162
FetchedConfig(e, version) ==
  [host |-> ParamValue(ParamPath(e, "MYSQL_HOST"), version),
   user |-> ParamValue(ParamPath(e, "MYSQL_USER"), version),
   password |-> ParamValue(ParamPath(e, "MYSQL_PASSWORD"), version),
   database |-> ParamValue(ParamPath(e, "MYSQL_DATABASE"), version)]

\* a cache that is never hit
CacheNever(e) == FALSE

\* dbConfigCache.has(env), line 153
CacheHas(e) == dbConfigCache[e] # NoConfig

\* the four GetParameter requests of lines 157-162, all issued at once
IssueRequests(e) ==
  [p \in ParamPaths |->
     IF \E name \in ParamNames : p = ParamPath(e, name)
       THEN ssmRequests[p] + 1 ELSE ssmRequests[p]]

-----------------------------------------------------------------------------
(* processRecord, lines 174-202 *)

\* 10 at line 226 and 10 at line 222 of the source.  The model scales both
\* down: every window is explored under all interleavings of its records.
concurrencyLimit == 2
connectionLimit == 2

NoPool == [state |-> "none", config |-> NoConfig]

NewTask == [pc |-> "new", tx |-> "none", pending |-> {}, written |-> {}, held |-> FALSE,
            acquired |-> 0, releases |-> 0, doomed |-> FALSE]

Handles == 1..Len(queue)

TaskOf(h) == IF h \in DOMAIN task THEN task[h] ELSE NewTask

Settled(h) == TaskOf(h).pc \in {"new", "resolved", "rejected"}

\* a slice that is one record too long: records.slice(i, i + concurrencyLimit + 1)
WindowWide(i) ==
  { event[k] : k \in { j \in 1..Len(event) : i < j /\ j <= i + concurrencyLimit + 1 } }

\* records.slice(i, i + concurrencyLimit), line 228
Window(i) ==
  { event[k] : k \in { j \in 1..Len(event) : i < j /\ j <= i + concurrencyLimit } }

\* a map over the rest of the event instead of the slice: records.slice(i)
StartWindowAll(t, i) ==
  [h \in DOMAIN t |->
     IF \E k \in 1..Len(event) : k > i /\ event[k] = h
       THEN [t[h] EXCEPT !.pc = "getConnection"] ELSE t[h]]

\* batch.map(record => processRecord(pool, record)), line 229: every call
\* runs up to its first await, pool.getConnection() of line 178
StartWindow(t, i) ==
  [h \in DOMAIN t |-> IF h \in Window(i) THEN [t[h] EXCEPT !.pc = "getConnection"] ELSE t[h]]

\* an operation issued on a connection of an ended pool is refused
PoolEnded == pool.state = "ended"

StepOutcomes(h) == IF task[h].doomed THEN {"throw"} ELSE Outcomes

\* payload.data of line 176
Payload(h) == queue[h].MessageBody

\* an upsert whose ON DUPLICATE KEY clause also overwrites createdAt
UpsertTouchesCreatedAt(table, db, data, uuid) ==
  LET clash == { u \in table : u.db = db /\ u.name = data.name }
  IN IF uniqueName /\ clash # {}
       THEN { [u EXCEPT !.updatedAt = data.timestamp, !.createdAt = data.timestamp] : u \in clash }
       ELSE { [db |-> db, id |-> uuid, name |-> data.name,
               createdAt |-> data.timestamp, updatedAt |-> data.timestamp] }

\* The rows the statement of lines 182-187 writes, in database db: a new row
\* with a fresh UUID(), or, when a unique key rejects the insert, the
\* conflicting row with updatedAt = VALUES(updatedAt).
Upsert(table, db, data, uuid) ==
  LET clash == { u \in table : u.db = db /\ u.name = data.name }
  IN IF uniqueName /\ clash # {}
       THEN { [u EXCEPT !.updatedAt = data.timestamp] : u \in clash }
       ELSE { [db |-> db, id |-> uuid, name |-> data.name,
               createdAt |-> data.timestamp, updatedAt |-> data.timestamp] }

\* the table after a transaction's writes are committed
Apply(table, writes) ==
  { u \in table : \A w \in writes : w.id # u.id } \cup writes

\* a row lock held by another open transaction makes the statement wait
LockedBy(h, db, name) ==
  /\ uniqueName
  /\ \E g \in DOMAIN task :
       g # h /\ task[g].tx = "open" /\ \E w \in task[g].pending : w.db = db /\ w.name = name

\* a handler that waits for every call of the window to settle and goes on
\* to the next window whatever the outcomes (Promise.allSettled)
HandlerReactsAllSettled(t) ==
  IF hpc = "window" /\ \A h \in Window(winStart) : t[h].pc \in {"resolved", "rejected"}
    THEN IF winStart + concurrencyLimit < Len(event)
           THEN /\ winStart' = winStart + concurrencyLimit
                /\ task' = StartWindow(t, winStart + concurrencyLimit)
                /\ UNCHANGED <<hpc, pool, poolEnds>>
           ELSE /\ hpc' = IF \E h \in DOMAIN t : t[h].pc = "rejected" THEN "endErr" ELSE "endOk"
                /\ pool' = [pool EXCEPT !.state = "ended"]
                /\ poolEnds' = poolEnds + 1
                /\ task' = t
                /\ winStart' = winStart
    ELSE /\ task' = t
         /\ UNCHANGED <<hpc, pool, poolEnds, winStart>>

\* a handler that ends the pool at the end of the try block only, so that a
\* failed window leaves the pool open
HandlerReactsNoFinally(t) ==
  IF hpc = "window" /\ \E h \in Window(winStart) : t[h].pc = "rejected"
    THEN /\ hpc' = "endErr"
         /\ task' = t
         /\ UNCHANGED <<pool, poolEnds, winStart>>
    ELSE IF hpc = "window" /\ \A h \in Window(winStart) : t[h].pc = "resolved"
      THEN IF winStart + concurrencyLimit < Len(event)
             THEN /\ winStart' = winStart + concurrencyLimit
                  /\ task' = StartWindow(t, winStart + concurrencyLimit)
                  /\ UNCHANGED <<hpc, pool, poolEnds>>
             ELSE /\ hpc' = "endOk"
                  /\ pool' = [pool EXCEPT !.state = "ended"]
                  /\ poolEnds' = poolEnds + 1
                  /\ task' = t
                  /\ winStart' = winStart
      ELSE /\ task' = t
           /\ UNCHANGED <<hpc, pool, poolEnds, winStart>>

\* What the handler does when a processRecord call settles (lines 227-238):
\* Promise.all rejects with the first rejection of the window, and the
\* handler goes through catch to finally, where it calls pool.end(); when
\* the last call of the window resolves, the loop starts the next window
\* or, after the last one, reaches finally with the 200 response.
HandlerReacts(t) ==
  IF hpc = "window" /\ \E h \in Window(winStart) : t[h].pc = "rejected"
    THEN /\ hpc' = "endErr"
         /\ pool' = [pool EXCEPT !.state = "ended"]
         /\ poolEnds' = poolEnds + 1
         /\ task' = t
         /\ winStart' = winStart
    ELSE IF hpc = "window" /\ \A h \in Window(winStart) : t[h].pc = "resolved"
      THEN IF winStart + concurrencyLimit < Len(event)
             THEN /\ winStart' = winStart + concurrencyLimit
                  /\ task' = StartWindow(t, winStart + concurrencyLimit)
                  /\ UNCHANGED <<hpc, pool, poolEnds>>
             ELSE /\ hpc' = "endOk"
                  /\ pool' = [pool EXCEPT !.state = "ended"]
                  /\ poolEnds' = poolEnds + 1
                  /\ task' = t
                  /\ winStart' = winStart
      ELSE /\ task' = t
           /\ UNCHANGED <<hpc, pool, poolEnds, winStart>>

\* line 178: await pool.getConnection()
GetConnection(h, outcome) ==
  /\ task[h].pc = "getConnection"
  /\ IF outcome = "ok"
       THEN /\ Cardinality({ g \in DOMAIN task : task[g].held }) < connectionLimit
            /\ task' = [task EXCEPT ![h].pc = "beginTransaction", ![h].held = TRUE,
                                    ![h].acquired = @ + 1, ![h].doomed = PoolEnded]
            /\ UNCHANGED <<hpc, pool, poolEnds, winStart>>
       ELSE HandlerReacts([task EXCEPT ![h].pc = "rejected"])
  /\ UNCHANGED <<event, env, response, invocations>>
  /\ UNCHANGED <<faults, ingestVars, queueVars, processVars, dbVars>>

\* line 180: await connection.beginTransaction()
BeginTransaction(h, outcome) ==
  /\ task[h].pc = "beginTransaction"
  /\ IF outcome = "ok"
       THEN task' = [task EXCEPT ![h].pc = "execute", ![h].tx = "open", ![h].doomed = PoolEnded]
       ELSE task' = [task EXCEPT ![h].pc = "rollback", ![h].doomed = PoolEnded]
  /\ UNCHANGED <<hpc, event, env, pool, winStart, response, invocations, poolEnds>>
  /\ UNCHANGED <<faults, ingestVars, queueVars, processVars, dbVars>>

\* line 187: await connection.execute(userQuery, [name, timestamp, timestamp])
Execute(h, outcome) ==
  /\ task[h].pc = "execute"
  /\ IF outcome = "ok"
       THEN /\ ~LockedBy(h, pool.config.database, Payload(h).data.name)
            /\ task' = [task EXCEPT ![h].pc = "deleteMessage",
                 ![h].pending = Upsert(users, pool.config.database, Payload(h).data, nextUuid)]
            /\ nextUuid' = nextUuid + 1
       ELSE /\ task' = [task EXCEPT ![h].pc = "rollback", ![h].doomed = PoolEnded]
            /\ nextUuid' = nextUuid
  /\ UNCHANGED <<hpc, event, env, pool, winStart, response, invocations, poolEnds>>
  /\ UNCHANGED <<faults, ingestVars, queueVars, processVars, users, uniqueName>>

\* lines 189-194: await sqsClient.send(new DeleteMessageCommand(...))
DeleteMessage(h, outcome) ==
  /\ task[h].pc = "deleteMessage"
  /\ IF outcome = "ok"
       THEN /\ deleted' = deleted \cup {h}
            /\ task' = [task EXCEPT ![h].pc = "commit", ![h].doomed = PoolEnded]
       ELSE /\ deleted' = deleted
            /\ task' = [task EXCEPT ![h].pc = "rollback", ![h].doomed = PoolEnded]
  /\ UNCHANGED <<hpc, event, env, pool, winStart, response, invocations, poolEnds>>
  /\ UNCHANGED <<faults, ingestVars, queue, processVars, dbVars>>

\* line 195: await connection.commit(), then finally (line 200) and return
Commit(h, outcome) ==
  /\ task[h].pc = "commit"
  /\ IF outcome = "ok"
       THEN /\ users' = Apply(users, task[h].pending)
            /\ HandlerReacts([task EXCEPT ![h].pc = "resolved", ![h].tx = "committed",
                 ![h].written = { w.id : w \in task[h].pending },
                 ![h].pending = {}, ![h].held = FALSE, ![h].releases = @ + 1])
       ELSE /\ users' = users
            /\ task' = [task EXCEPT ![h].pc = "rollback", ![h].doomed = PoolEnded]
            /\ UNCHANGED <<hpc, pool, poolEnds, winStart>>
  /\ UNCHANGED <<event, env, response, invocations>>
  /\ UNCHANGED <<faults, ingestVars, queueVars, processVars, nextUuid, uniqueName>>

\* a rollback that undoes the whole window: the rows its siblings committed
\* are removed with the failed record's own
RollbackWindow(h, outcome) ==
  /\ task[h].pc = "rollback"
  /\ users' = { u \in users : \A g \in Window(winStart) : u.id \notin task[g].written }
  /\ HandlerReacts([g \in DOMAIN task |->
       IF g = h
         THEN [task[g] EXCEPT !.pc = "rejected", !.tx = "rolledBack", !.pending = {},
                              !.held = FALSE, !.releases = @ + 1]
         ELSE IF g \in Window(winStart) /\ task[g].tx = "committed"
           THEN [task[g] EXCEPT !.tx = "rolledBack"]
           ELSE task[g]])
  /\ UNCHANGED <<event, env, response, invocations>>
  /\ UNCHANGED <<faults, ingestVars, queueVars, processVars, nextUuid, uniqueName>>

\* a catch block that releases the connection after the rollback, without a
\* finally: a rollback that rejects skips the release
RollbackLeaks(h, outcome) ==
  /\ task[h].pc = "rollback"
  /\ HandlerReacts([task EXCEPT ![h].pc = "rejected",
       ![h].tx = IF @ # "open" THEN @ ELSE IF outcome = "ok" THEN "rolledBack" ELSE "abandoned",
       ![h].pending = {},
       ![h].held = IF outcome = "ok" THEN FALSE ELSE @,
       ![h].releases = IF outcome = "ok" THEN @ + 1 ELSE @])
  /\ UNCHANGED <<event, env, response, invocations>>
  /\ UNCHANGED <<faults, ingestVars, queueVars, processVars, dbVars>>

\* lines 196-201: await connection.rollback(), throw, finally release.  A
\* rollback that rejects leaves the transaction to the server, which
\* discards it when the connection closes.
Rollback(h, outcome) ==
  /\ task[h].pc = "rollback"
  /\ HandlerReacts([task EXCEPT ![h].pc = "rejected",
       ![h].tx = IF @ # "open" THEN @ ELSE IF outcome = "ok" THEN "rolledBack" ELSE "abandoned",
       ![h].pending = {}, ![h].held = FALSE, ![h].releases = @ + 1])
  /\ UNCHANGED <<event, env, response, invocations>>
  /\ UNCHANGED <<faults, ingestVars, queueVars, processVars, dbVars>>

-----------------------------------------------------------------------------
(* The consumer: exports.handler, lines 207-239 *)

\* the messages SQS can hand over: the undeleted ones, oldest first
Available == SelectSeq([h \in Handles |-> h], LAMBDA h : h \notin deleted)

MinRecords == IF faults THEN 0 ELSE 1

\* a handler that reads the env of the last record of the event
InvokeLastEnv(n) ==
  /\ hpc \in {"idle", "returned"}
  /\ \A h \in Handles : Settled(h)
  /\ invocations < lifetime
  /\ MinRecords <= n
  /\ n <= batchSize
  /\ n <= Len(Available)
  /\ invocations' = invocations + 1
  /\ event' = SubSeq(Available, 1, n)
  /\ task' = [h \in Handles |->
                IF \E k \in 1..n : Available[k] = h THEN NewTask ELSE TaskOf(h)]
  /\ pool' = NoPool
  /\ poolEnds' = 0
  /\ winStart' = 0
  /\ IF n = 0
       THEN /\ hpc' = "returned"
            /\ response' = 500
            /\ env' = env
       ELSE /\ hpc' = "config"
            /\ response' = 0
            /\ env' = queue[Available[n]].MessageBody.env
  /\ UNCHANGED <<faults, ingestVars, queueVars, processVars, dbVars>>

\* a handler that takes an event without records for work done
InvokeEmptyOk(n) ==
  /\ hpc \in {"idle", "returned"}
  /\ \A h \in Handles : Settled(h)
  /\ invocations < lifetime
  /\ MinRecords <= n
  /\ n <= batchSize
  /\ n <= Len(Available)
  /\ invocations' = invocations + 1
  /\ event' = SubSeq(Available, 1, n)
  /\ task' = [h \in Handles |->
                IF \E k \in 1..n : Available[k] = h THEN NewTask ELSE TaskOf(h)]
  /\ pool' = NoPool
  /\ poolEnds' = 0
  /\ winStart' = 0
  /\ IF n = 0
       THEN /\ hpc' = "returned"
            /\ response' = 200
            /\ env' = env
       ELSE /\ hpc' = "config"
            /\ response' = 0
            /\ env' = queue[Available[1]].MessageBody.env
  /\ UNCHANGED <<faults, ingestVars, queueVars, processVars, dbVars>>

\* lines 208-215: the event arrives with the first n available messages;
\* an event without records throws at line 211 and returns 500 at once
Invoke(n) ==
  /\ hpc \in {"idle", "returned"}
  /\ \A h \in Handles : Settled(h)
  /\ invocations < lifetime
  /\ MinRecords <= n
  /\ n <= batchSize
  /\ n <= Len(Available)
  /\ invocations' = invocations + 1
  /\ event' = SubSeq(Available, 1, n)
  /\ task' = [h \in Handles |->
                IF \E k \in 1..n : Available[k] = h THEN NewTask ELSE TaskOf(h)]
  /\ pool' = NoPool
  /\ poolEnds' = 0
  /\ winStart' = 0
  /\ IF n = 0
       THEN /\ hpc' = "returned"
            /\ response' = 500
            /\ env' = env
       ELSE /\ hpc' = "config"
            /\ response' = 0
            /\ env' = queue[Available[1]].MessageBody.env
  /\ UNCHANGED <<faults, ingestVars, queueVars, processVars, dbVars>>

\* a getDatabaseConfig that stores the entry before the lookups have
\* resolved, so that a failed resolution stays cached
GetDatabaseConfigCachesFailure(failed) ==
  /\ hpc = "config"
  /\ IF CacheHas(env)
       THEN /\ failed = {}
            /\ UNCHANGED <<dbConfigCache, ssmRequests>>
       ELSE /\ ssmRequests' = IssueRequests(env)
            /\ dbConfigCache' = [dbConfigCache EXCEPT ![env] = FetchedConfig(env, ssmVersion)]
  /\ IF failed = {}
       THEN /\ pool' = [state |-> "open", config |-> dbConfigCache'[env]]
            /\ hpc' = "window"
            /\ task' = StartWindow(task, 0)
            /\ response' = response
       ELSE /\ pool' = pool
            /\ hpc' = "returned"
            /\ task' = task
            /\ response' = 500
  /\ UNCHANGED <<event, env, winStart, invocations, poolEnds, ssmVersion, lifetime, batchSize>>
  /\ UNCHANGED <<faults, ingestVars, queueVars, dbVars>>

\* line 217: await getDatabaseConfig(env), with `failed` the GetParameter
\* requests that reject; then lines 218-229 up to the await of Promise.all
GetDatabaseConfig(failed) ==
  /\ hpc = "config"
  /\ IF CacheHas(env)
       THEN /\ failed = {}
            /\ UNCHANGED <<dbConfigCache, ssmRequests>>
       ELSE /\ ssmRequests' = IssueRequests(env)
            /\ dbConfigCache' =
                 IF failed = {}
                   THEN [dbConfigCache EXCEPT ![env] = FetchedConfig(env, ssmVersion)]
                   ELSE dbConfigCache
  /\ IF failed = {}
       THEN /\ pool' = [state |-> "open", config |-> dbConfigCache'[env]]
            /\ hpc' = "window"
            /\ task' = StartWindow(task, 0)
            /\ response' = response
       ELSE /\ pool' = pool
            /\ hpc' = "returned"
            /\ task' = task
            /\ response' = 500
  /\ UNCHANGED <<event, env, winStart, invocations, poolEnds, ssmVersion, lifetime, batchSize>>
  /\ UNCHANGED <<faults, ingestVars, queueVars, dbVars>>

FailureSets == IF faults THEN SUBSET ParamNames ELSE {{}}

\* a handler whose catch block reports success
ReturnOk ==
  /\ hpc \in {"endOk", "endErr"}
  /\ hpc' = "returned"
  /\ response' = 200
  /\ UNCHANGED <<event, env, pool, winStart, task, invocations, poolEnds>>
  /\ UNCHANGED <<faults, ingestVars, queueVars, processVars, dbVars>>

\* line 237: await pool.end() resolves, and the handler returns
Return ==
  /\ hpc \in {"endOk", "endErr"}
  /\ hpc' = "returned"
  /\ response' = IF hpc = "endOk" THEN 200 ELSE 500
  /\ UNCHANGED <<event, env, pool, winStart, task, invocations, poolEnds>>
  /\ UNCHANGED <<faults, ingestVars, queueVars, processVars, dbVars>>

\* an operator stores new credentials in the parameter store
RotateCredentials ==
  /\ hpc \in {"idle", "returned"}
  /\ ssmVersion < MaxVersion
  /\ ssmVersion' = ssmVersion + 1
  /\ UNCHANGED <<dbConfigCache, ssmRequests, lifetime, batchSize>>
  /\ UNCHANGED <<faults, ingestVars, queueVars, invocationVars, dbVars>>

ConsumerNext ==
  \/ \E n \in 0..MaxRecords : Invoke(n)
  \/ \E f \in FailureSets : GetDatabaseConfig(f)
  \/ \E h \in DOMAIN task : \E o \in StepOutcomes(h) : GetConnection(h, o)
  \/ \E h \in DOMAIN task : \E o \in StepOutcomes(h) : BeginTransaction(h, o)
  \/ \E h \in DOMAIN task : \E o \in StepOutcomes(h) : Execute(h, o)
  \/ \E h \in DOMAIN task : \E o \in Outcomes : DeleteMessage(h, o)
  \/ \E h \in DOMAIN task : \E o \in StepOutcomes(h) : Commit(h, o)
  \/ \E h \in DOMAIN task : \E o \in StepOutcomes(h) : Rollback(h, o)
  \/ Return

ProcessNext ==
  \/ ConsumerNext
  \/ RotateCredentials

-----------------------------------------------------------------------------
(* Initial states *)

InitIdle ==
  /\ ipc = "idle"
  /\ bucketName = <<>>
  /\ file = <<>>
  /\ pos = 0
  /\ rows = <<>>
  /\ chunkCounter = 0
  /\ uploadResponse = 0
  /\ sends = <<>>
  /\ now = 0
  /\ deleted = {}
  /\ dbConfigCache = [e \in Envs |-> NoConfig]
  /\ ssmVersion = 1
  /\ ssmRequests = [p \in ParamPaths |-> 0]
  /\ hpc = "idle"
  /\ event = <<>>
  /\ env = Undefined
  /\ pool = NoPool
  /\ winStart = 0
  /\ response = 0
  /\ task = <<>>
  /\ invocations = 0
  /\ poolEnds = 0
  /\ users = {}
  /\ nextUuid = 1

\* the ingestion handler alone, on files of up to MaxRows rows
InitIngest ==
  /\ InitIdle
  /\ faults = TRUE
  /\ lifetime = 0
  /\ batchSize = 0
  /\ queue = <<>>
  /\ uniqueName = FALSE

SpecIngest == InitIngest /\ [][IngestNext]_vars

\* The messages on the queue of a consumer behaviour: MaxRecords messages of
\* one user sent twice ("same"), of one user with a later timestamp each
\* ("later"), of different users ("distinct"), or of one user under
\* alternating environments ("mixed").
QueuePatterns == {"same", "later", "distinct", "mixed"}

\* the row of the i-th message
DataOf(p, i) ==
  CASE p = "same" -> [id |-> "1", name |-> "ann", timestamp |-> "1"]
    [] p = "later" -> [id |-> "1", name |-> "ann", timestamp |-> ToStr(i)]
    [] p = "distinct" -> [id |-> ToStr(i), name |-> "n" \o ToStr(i), timestamp |-> "1"]
    [] p = "mixed" -> [id |-> "1", name |-> "ann", timestamp |-> "1"]

\* the env tag of the i-th message
EnvOf(p, i) == IF p = "mixed" /\ i % 2 = 0 THEN "prod" ELSE "dev"

\* a message as sendChunkToSQS sends it, the i-th of its queue
Message(i, data, e) ==
  [Id |-> "row-" \o ToStr(i - 1) \o "-0",
   MessageBody |-> [data |-> data, env |-> e],
   MessageGroupId |-> "CSVChunkGroup",
   MessageDeduplicationId |-> "dedup-" \o ToStr(i) \o "-0"]

ConsumerQueues ==
  { [i \in 1..MaxRecords |-> Message(i, DataOf(p, i), EnvOf(p, i))] : p \in QueuePatterns }

\* one consumer invocation on an event of up to MaxRecords records
Init ==
  /\ InitIdle
  /\ faults = TRUE
  /\ lifetime = 1
  /\ batchSize = MaxRecords
  /\ queue \in ConsumerQueues
  /\ uniqueName \in BOOLEAN

Next == ConsumerNext

Spec == Init /\ [][Next]_vars

\* a consumer process that serves MaxInvocations events of one record each
InitProcess ==
  /\ InitIdle
  /\ faults = TRUE
  /\ lifetime = MaxInvocations
  /\ batchSize = 1
  /\ queue \in ConsumerQueues
  /\ uniqueName \in BOOLEAN

SpecProcess == InitProcess /\ [][ProcessNext]_vars

\* the rows of the files uploaded under SpecPipeline
PipelineRows ==
  { [id |-> i, name |-> n, timestamp |-> "1"] : i \in {"", "0", "5"}, n \in {"ann", "bob"} }

PipelineFiles == UNION { [1..n -> PipelineRows] : n \in 0..MaxPipelineRows }

\* both functions with no failing call: one upload, and a consumer process
\* that is invoked while the queue holds messages
InitPipeline ==
  /\ InitIdle
  /\ faults = FALSE
  /\ lifetime = MaxPipelineRows
  /\ batchSize = MaxRecords
  /\ queue = <<>>
  /\ uniqueName \in BOOLEAN

\* the steps that are enabled when no call fails
PipelineNext ==
  \/ \E b \in BucketNames, f \in PipelineFiles : S3Event(b, f)
  \/ \E o \in Outcomes : FetchObject(o)
  \/ ReadRow
  \/ EndOfStream
  \/ \E o \in Outcomes, k \in 0..(2 * Len(rows)) : SendChunk(o, k)
  \/ \E n \in 1..MaxRecords : Invoke(n)
  \/ \E f \in FailureSets : GetDatabaseConfig(f)
  \/ \E h \in DOMAIN task : \E o \in StepOutcomes(h) : GetConnection(h, o)
  \/ \E h \in DOMAIN task : \E o \in StepOutcomes(h) : BeginTransaction(h, o)
  \/ \E h \in DOMAIN task : \E o \in StepOutcomes(h) : Execute(h, o)
  \/ \E h \in DOMAIN task : \E o \in Outcomes : DeleteMessage(h, o)
  \/ \E h \in DOMAIN task : \E o \in StepOutcomes(h) : Commit(h, o)
  \/ Return

\* Lambda runs a handler to its return, and the event source invokes the
\* consumer as long as the queue holds messages
SpecPipeline == InitPipeline /\ [][PipelineNext]_vars /\ WF_vars(PipelineNext)

-----------------------------------------------------------------------------
(* Claims *)

\* C1: a record's message is deleted only after the record's transaction
\* has committed: no message is deleted while its transaction is
\* uncommitted or rolled back.
C1_DeletedOnlyAfterCommit ==
  \A h \in DOMAIN task : h \in deleted => task[h].tx = "committed"

\* C2: when a step of processRecord's sequence (begin, upsert, delete,
\* commit) has failed and the call has rejected, none of the record's writes
\* is committed and the record's message is still on the queue.
C2_FailureKeepsMessage ==
  \A h \in DOMAIN task :
    (task[h].pc = "rejected" /\ task[h].acquired > 0)
      => /\ task[h].tx # "committed"
         /\ task[h].pending = {}
         /\ h \notin deleted

\* the row data of the entries of all calls, in call order
RECURSIVE SentRows(_)
SentRows(calls) ==
  IF calls = <<>> THEN <<>>
  ELSE LET last == calls[Len(calls)]
       IN SentRows(SubSeq(calls, 1, Len(calls) - 1))
            \o [i \in 1..Len(last.entries) |-> last.entries[i].MessageBody.data]

CeilDiv(n, d) == (n + d - 1) \div d

\* C3: when the ingestion handler has returned 200 for a file of R rows, it
\* has issued exactly ceil(R / CHUNK_SIZE) batch-send calls, each of 1 to
\* CHUNK_SIZE entries, and the entries' row data in call order are the
\* parsed rows in file order.
C3_Batches ==
  (ipc = "returned" /\ uploadResponse = 200)
    => /\ Len(sends) = CeilDiv(Len(file), CHUNK_SIZE)
       /\ \A i \in 1..Len(sends) :
            Len(sends[i].entries) >= 1 /\ Len(sends[i].entries) <= CHUNK_SIZE
       /\ SentRows(sends) = file

\* a file that needs two full batches and a partial one was sent
C3_Witness ==
  /\ ipc = "returned"
  /\ uploadResponse = 200
  /\ Len(file) > 2 * CHUNK_SIZE
  /\ Len(sends) = 3
  /\ Len(sends[3].entries) < CHUNK_SIZE

\* a message per row, tagged with the bucket's environment
AllEnqueued ==
  /\ Len(queue) = Len(file)
  /\ \A i \in 1..Len(queue) :
       /\ queue[i].MessageBody.data = file[i]
       /\ queue[i].MessageBody.env = DeriveEnv(bucketName)

\* the consumer has returned from an invocation and the queue is empty
Consumed ==
  /\ hpc = "returned"
  /\ \A h \in Handles : h \in deleted /\ TaskOf(h).pc = "resolved"

\* C4: with no failing call, for a file of R rows in a bucket whose second
\* hyphen-delimited token is E: ingestion enqueues R messages tagged E, and
\* once the consumer has been invoked on them it has looked up the
\* /E/MYSQL_* parameters, the table holds one row per input row, the R
\* messages are deleted and the response is 200.
C4_EndToEnd ==
  (ipc = "returned" /\ uploadResponse = 200 /\ DeriveEnv(bucketName) # Undefined)
    => /\ AllEnqueued
       /\ Consumed =>
            /\ response = 200
            /\ Cardinality(deleted) = Len(file)
            /\ Cardinality(users) = Len(file)
            /\ \A name \in ParamNames :
                 ssmRequests[ParamPath(DeriveEnv(bucketName), name)] >= 1

\* C5: a record whose transaction has committed stays committed, its
\* message stays deleted and the row it wrote stays in the table, whatever
\* happens to the other records of its window.
C5_CommittedStays ==
  [][\A h \in DOMAIN task :
       task[h].tx = "committed"
         => /\ task'[h].tx = "committed"
            /\ h \in deleted'
            /\ \A id \in task[h].written : \E u \in users' : u.id = id]_vars

\* a record of the window was rolled back and a sibling's row is committed
C5_Witness ==
  \E g, h \in Window(winStart) :
    /\ task[g].pc = "rejected"
    /\ task[g].tx = "rolledBack"
    /\ task[h].tx = "committed"
    /\ \E u \in users : u.id \in task[h].written

\* the record was upserted, its message deleted and its transaction committed
Processed(h) ==
  /\ task[h].tx = "committed"
  /\ h \in deleted
  /\ task[h].written # {}
  /\ \A id \in task[h].written : \E u \in users : u.id = id

WindowOf(k) == (k - 1) \div concurrencyLimit

\* C7: once a record of a window has failed, no record of a later window
\* is started: it acquires no connection, writes no row and its message
\* stays on the queue.
C7_LaterWindowsNotStarted ==
  \A i, j \in 1..Len(event) :
    (WindowOf(i) < WindowOf(j) /\ task[event[i]].pc \in {"rollback", "rejected"})
      => /\ task[event[j]] = NewTask
         /\ event[j] \notin deleted

\* the handler returned after a failure in the first of two windows
C7_Witness ==
  /\ hpc = "returned"
  /\ Len(event) > concurrencyLimit
  /\ task[event[1]].pc = "rejected"
  /\ task[event[Len(event)]] = NewTask

\* C8: once an environment's config is cached, the entry is never removed
\* or changed, no further parameter request is issued for that
\* environment, and the pool of every invocation for it is built from the
\* cached config.
C8_ConfigCached ==
  /\ [](pool.state # "none" => pool.config = dbConfigCache[env])
  /\ [][\A e \in Envs :
         dbConfigCache[e] # NoConfig
           => /\ dbConfigCache'[e] = dbConfigCache[e]
              /\ \A name \in ParamNames :
                   ssmRequests'[ParamPath(e, name)] = ssmRequests[ParamPath(e, name)]]_vars

\* a second invocation runs on the cached config after the store changed
C8_Witness ==
  /\ invocations = 2
  /\ pool.state = "open"
  /\ pool.config # FetchedConfig(env, ssmVersion)
  /\ \A name \in ParamNames : ssmRequests[ParamPath(env, name)] = 1

\* C9 as stated: no two rows of a database belong to the same user
C9_OneRowPerUser ==
  \A u, v \in users : (u.db = v.db /\ u.name = v.name) => u = v

\* C9, amended: when users.name carries a unique key, a step leaves every
\* row in place with its id, name and createdAt, and adds a row only for a
\* name that has none; so processing a message again changes updatedAt only.
C9_UpsertIdempotent ==
  /\ [](uniqueName => C9_OneRowPerUser)
  /\ [][uniqueName =>
         /\ \A u \in users : \E v \in users' :
              v.id = u.id /\ v.db = u.db /\ v.name = u.name /\ v.createdAt = u.createdAt
         /\ \A v \in users' :
              \/ \E u \in users : u.id = v.id
              \/ ~ \E u \in users : u.db = v.db /\ u.name = v.name]_vars

\* two messages of the same user with different timestamps were both
\* committed, and the table holds one row, with the first createdAt
C9_Witness ==
  /\ uniqueName
  /\ \E g, h \in DOMAIN task :
       /\ g # h
       /\ task[g].tx = "committed"
       /\ task[h].tx = "committed"
       /\ Payload(g).data.name = Payload(h).data.name
       /\ Payload(g).data.timestamp # Payload(h).data.timestamp
       /\ task[g].written = task[h].written
  /\ Cardinality(users) = 1
  /\ \E u \in users : u.createdAt # u.updatedAt

\* the queue after the calls that resolved, in call order
RECURSIVE AcceptedOf(_)
AcceptedOf(calls) ==
  IF calls = <<>> THEN <<>>
  ELSE LET last == calls[Len(calls)]
           before == AcceptedOf(SubSeq(calls, 1, Len(calls) - 1))
       IN IF last.outcome = "ok" THEN SqsAccept(before, last.entries, 1) ELSE before

\* C10: a batch-send call that fails is the handler's last call, and the
\* handler returns 500; the batches sent before it stay on the queue; the
\* handler returns 200 only when every call succeeded.
C10_SendFailure ==
  /\ \A i \in 1..Len(sends) :
       sends[i].outcome = "throw"
         => i = Len(sends) /\ ipc = "returned" /\ uploadResponse = 500
  /\ uploadResponse = 200 => \A i \in 1..Len(sends) : sends[i].outcome = "ok"
  /\ queue = AcceptedOf(sends)

\* the second batch failed after the first one was enqueued
C10_Witness ==
  /\ ipc = "returned"
  /\ uploadResponse = 500
  /\ Len(sends) = 2
  /\ sends[1].outcome = "ok"
  /\ sends[2].outcome = "throw"
  /\ Len(queue) > 0
  /\ pos < Len(file)

\* the call for the k-th record of the event was made
Started(k) == task[event[k]].pc # "new"

\* C11: the records are processed in consecutive windows of at most
\* concurrencyLimit records in event order: the calls of a window are made
\* together, and no call of a later window is made before every call of the
\* windows before it has resolved.
C11_WindowsInOrder ==
  /\ \A i, j \in 1..Len(event) :
       WindowOf(i) = WindowOf(j) => (Started(i) <=> Started(j))
  /\ \A i, j \in 1..Len(event) :
       (WindowOf(i) < WindowOf(j) /\ Started(j)) => task[event[i]].pc = "resolved"
  /\ hpc = "window" =>
       /\ Window(winStart) = { event[k] : k \in { j \in 1..Len(event) : WindowOf(j) = WindowOf(winStart + 1) } }
       /\ Cardinality(Window(winStart)) <= concurrencyLimit
       /\ \A k \in 1..Len(event) : Started(k) <=> WindowOf(k) <= WindowOf(winStart + 1)

\* the second window runs after every record of the first has resolved
C11_Witness ==
  /\ hpc = "window"
  /\ Len(event) > concurrencyLimit
  /\ winStart = concurrencyLimit
  /\ \A k \in 1..concurrencyLimit : task[event[k]].pc = "resolved"
  /\ task[event[Len(event)]].pc \in {"beginTransaction", "execute", "deleteMessage", "commit"}

\* the env of the first record of the event
FirstEnv == queue[event[1]].MessageBody.env

\* C12: the env of an invocation is the first record's: the parameters are
\* requested once, for that env and for no other, the pool is built from
\* that env's config, and every row of every record is written to that
\* env's database, whatever env the record's own body carries.
C12_EnvOfFirstRecord ==
  Len(event) > 0 =>
    /\ env = FirstEnv
    /\ \A e \in Envs, name \in ParamNames :
         ssmRequests[ParamPath(e, name)] <= (IF e = FirstEnv THEN 1 ELSE 0)
    /\ pool.state # "none" => pool.config = FetchedConfig(FirstEnv, ssmVersion)
    /\ \A h \in DOMAIN task : \A w \in task[h].pending :
         w.db = FetchedConfig(FirstEnv, ssmVersion).database
    /\ \A u \in users : u.db = FetchedConfig(FirstEnv, ssmVersion).database

\* a record whose body carries another env than the first record's was
\* committed to the first record's database
C12_Witness ==
  /\ Len(event) > 1
  /\ \E k \in 2..Len(event) :
       /\ queue[event[k]].MessageBody.env # FirstEnv
       /\ task[event[k]].tx = "committed"
       /\ \E u \in users :
            u.id \in task[event[k]].written
              /\ u.db = FetchedConfig(FirstEnv, ssmVersion).database

\* C13: a processRecord call acquires at most one connection and releases
\* it exactly once before it settles, on every path: a call holds a
\* connection exactly between its acquisition and its one release, and a
\* settled call has released what it acquired.
C13_ReleasedOnce ==
  \A h \in DOMAIN task :
    /\ task[h].acquired <= 1
    /\ task[h].releases <= task[h].acquired
    /\ task[h].held <=> (task[h].acquired = 1 /\ task[h].releases = 0)
    /\ task[h].pc \in {"resolved", "rejected"} => task[h].releases = task[h].acquired

\* a call whose rollback itself failed has settled with its connection
\* released once
C13_Witness ==
  \E h \in DOMAIN task :
    /\ task[h].pc = "rejected"
    /\ task[h].tx = "abandoned"
    /\ task[h].acquired = 1
    /\ task[h].releases = 1
    /\ ~task[h].held

\* C14: a pool that was created is ended exactly once before the handler
\* returns, with 200 or with 500: a pool is open only while the windows
\* run, it is ended exactly when pool.end() was called once, and an
\* invocation starts without a pool while no earlier pool is open.
C14_PoolEndedOnce ==
  /\ [](/\ poolEnds <= 1
        /\ (pool.state = "ended") <=> (poolEnds = 1)
        /\ (pool.state = "open") => (hpc = "window")
        /\ (hpc = "returned" /\ pool.state # "none") => (pool.state = "ended" /\ poolEnds = 1))
  /\ [][invocations' # invocations => (pool.state # "open" /\ pool' = NoPool)]_vars

\* the second invocation of the process has returned 500 with its own pool
\* ended once
C14_Witness ==
  /\ invocations = 2
  /\ hpc = "returned"
  /\ response = 500
  /\ pool.state = "ended"
  /\ poolEnds = 1

\* C15: an invocation whose event has no records returns 500 at once and
\* changes nothing else: no parameter request, no cache entry, no pool, no
\* processRecord call, no row and no deleted message.
C15_EmptyEvent ==
  [][(invocations' = invocations + 1 /\ Len(event') = 0)
       => /\ hpc' = "returned"
          /\ response' = 500
          /\ pool' = NoPool
          /\ poolEnds' = 0
          /\ ssmRequests' = ssmRequests
          /\ dbConfigCache' = dbConfigCache
          /\ users' = users
          /\ deleted' = deleted
          /\ \A h \in DOMAIN task : task'[h] = task[h]]_vars

\* an empty event came after an invocation that had cached a config,
\* written a row and deleted a message: all of it is still there
C15_Witness ==
  /\ invocations = 2
  /\ Len(event) = 0
  /\ hpc = "returned"
  /\ response = 500
  /\ users # {}
  /\ deleted # {}
  /\ \E e \in Envs : dbConfigCache[e] # NoConfig

\* C16: for a file without data rows the ingestion handler makes no
\* batch-send call and, once the object is read, returns 200.
C16_EmptyFile ==
  /\ [](Len(file) = 0 => (sends = <<>> /\ queue = <<>> /\ chunkCounter = 0))
  /\ [][(ipc = "parse" /\ Len(file) = 0)
          => (ipc' = "returned" /\ uploadResponse' = 200)]_vars

\* an upload without data rows was answered with 200
C16_Witness ==
  /\ ipc = "returned"
  /\ bucketName # <<>>
  /\ Len(file) = 0
  /\ uploadResponse = 200
  /\ sends = <<>>

\* the calls that hold a connection of the pool
Holders == { h \in DOMAIN task : task[h].held }

\* C17: the connections held at the same time never exceed the pool's
\* limit, at most one window's worth of calls is in flight, and a call that
\* asks for a connection always finds one free.
C17_PoolNeverFull ==
  /\ Cardinality(Holders) <= connectionLimit
  /\ Cardinality({ h \in DOMAIN task : task[h].pc \notin {"new", "resolved", "rejected"} })
       <= concurrencyLimit
  /\ \A h \in DOMAIN task :
       task[h].pc = "getConnection" => Cardinality(Holders) < connectionLimit

\* every connection of the pool is held by a call of the running window
C17_Witness ==
  /\ hpc = "window"
  /\ Cardinality(Holders) = connectionLimit
  /\ Holders \subseteq Window(winStart)

\* C18: once the handler has called pool.end(), and after it has returned,
\* no processRecord call of the invocation is in flight or holds a
\* connection, and from then on no row is written and no message deleted.
C18_NoTaskAfterTeardown ==
  /\ [](hpc \in {"endOk", "endErr", "returned"}
          => \A h \in DOMAIN task :
               task[h].pc \in {"new", "resolved", "rejected"} /\ ~task[h].held)
  /\ [][(hpc \in {"endOk", "endErr", "returned"} /\ invocations' = invocations)
          => (users' = users /\ deleted' = deleted)]_vars

\* C19: the entries of a batch-send call have pairwise distinct Ids and
\* pairwise distinct MessageDeduplicationIds.
C19_DistinctIds ==
  \A c \in 1..Len(sends) :
    \A i, j \in 1..Len(sends[c].entries) :
      i # j => /\ sends[c].entries[i].Id # sends[c].entries[j].Id
               /\ sends[c].entries[i].MessageDeduplicationId
                    # sends[c].entries[j].MessageDeduplicationId

\* C20: when a parameter lookup of getDatabaseConfig(env) fails, the cache
\* keeps no entry for env, no pool is created, no call is made, no row is
\* written, no message is deleted and the response is 500; and a
\* resolution that finds no entry for env requests the four parameters.
C20_FailedLookup ==
  /\ [][(hpc = "config" /\ hpc' = "returned")
          => /\ dbConfigCache' = dbConfigCache
             /\ dbConfigCache'[env] = NoConfig
             /\ pool' = NoPool
             /\ task' = task
             /\ users' = users
             /\ deleted' = deleted
             /\ response' = 500]_vars
  /\ [][(hpc = "config" /\ hpc' # "config" /\ dbConfigCache[env] = NoConfig)
          => \A name \in ParamNames :
               ssmRequests'[ParamPath(env, name)] = ssmRequests[ParamPath(env, name)] + 1]_vars

\* after a failed resolution the next invocation requested the parameters
\* again, and now runs on the config it fetched
C20_Witness ==
  /\ invocations = 2
  /\ hpc = "window"
  /\ dbConfigCache[env] # NoConfig
  /\ \A name \in ParamNames : ssmRequests[ParamPath(env, name)] = 2

====
